---- MODULE Spec2Model ----
(***************************************************************************)
(* Persistent Weisfeiler-Lehman (P-WL): persistence_diagrams.py, and the   *)
(* label refinement and persistence computation of its features module.   *)
(*                                                                         *)
(* Floating-point numbers are modelled as exact values extended with the   *)
(* IEEE specials: a record [kind, num, den] whose kind is "fin", "nan",   *)
(* "pinf" or "ninf".  Rounding is not modelled.                            *)
(***************************************************************************)
EXTENDS Integers, Sequences, FiniteSets, TLC

\* ------------------------------------------------------------------ bounds
MaxLen == 2
MaxVal == 1
MaxC == 2
DistLen == 3
Denominator == 4
MaxGraphs == 2
MaxGraphVertices == 2
MaxWLVertices == 3
MaxLabel == 2
MaxIter == 2
MaxPersVertices == 3
MaxWeight == 2

\* ------------------------------------------------------------------ state
VARIABLES
    persistence_diagram,  \* to_probability_distribution: the argument
    C,                    \* to_probability_distribution: the argument
    P,                    \* to_probability_distribution: the local array
    pos,                  \* index of the next triple of the for loop
    pdpc,                 \* "loop", "returned" or "AssertionError"
    p,                    \* kullback_leibler, jensen_shannon: first argument
    q,                    \* kullback_leibler, jensen_shannon: second argument
    divCall,              \* the function called on (p, q), "none" before
    divRet,               \* the value it returned
    FILES,                \* main: the graphs as ig.read returned them
    graphs,               \* main: the list of graphs
    labels,               \* main: what read_labels returned
    gi,                   \* main: index of the next graph of `for graph in graphs`
    y,                    \* main: the encoded labels, <<>> before line 117
    transformArg,         \* the graphs pwl.transform was called with, in a 1-tuple
    produced,             \* the outputs of pwl.transform that exist
    mainpc,               \* main: the line main is at, or the exception that ended it
    wlN,                  \* WeisfeilerLehman: the number of vertices of the graph
    wlEdges,              \* WeisfeilerLehman: the edges {u, v} of the graph
    wlLabels,             \* WeisfeilerLehman: the current compressed labels
    wlRaw,                \* WeisfeilerLehman: the raw labels of the last iteration
    wlPrev,               \* the compressed labels one iteration before
    wlIter,               \* WeisfeilerLehman: the number of iterations done
    pN,                   \* PersistenceComputer: the number of vertices
    pEdges,               \* PersistenceComputer: the weighted edges
    use_cycle_persistence, \* PersistenceComputer: whether cycles are recorded
    pDone,                \* PersistenceComputer: the edges processed so far
    parent,               \* PersistenceComputer: the union-find parent array
    dgm0,                 \* PersistenceComputer: the 0-dimensional diagram
    dgm1,                 \* PersistenceComputer: the 1-dimensional diagram
    perspc                \* PersistenceComputer: "filtration" or "done"

pdVars == <<persistence_diagram, C, P, pos, pdpc>>
divVars == <<p, q, divCall, divRet>>

mainVars == <<FILES, graphs, labels, gi, y, transformArg, produced, mainpc>>

wlVars == <<wlN, wlEdges, wlLabels, wlRaw, wlPrev, wlIter>>
persVars == <<pN, pEdges, use_cycle_persistence, pDone, parent, dgm0, dgm1, perspc>>

vars == <<pdVars, divVars, mainVars, wlVars, persVars>>

WLIdle ==
    /\ wlN = 0
    /\ wlEdges = {}
    /\ wlLabels = <<>>
    /\ wlRaw = <<>>
    /\ wlPrev = <<>>
    /\ wlIter = 0

PersIdle ==
    /\ pN = 0
    /\ pEdges = {}
    /\ use_cycle_persistence = FALSE
    /\ pDone = {}
    /\ parent = <<>>
    /\ dgm0 = <<>>
    /\ dgm1 = <<>>
    /\ perspc = "idle"

PDIdle ==
    /\ persistence_diagram = <<>>
    /\ C = 0
    /\ P = <<>>
    /\ pos = 0
    /\ pdpc = "idle"

DivIdle ==
    /\ p = <<>>
    /\ q = <<>>
    /\ divCall = "idle"
    /\ divRet = <<>>

\* ------------------------------------------------------------------ floats
Finite(n, d) == [kind |-> "fin", num |-> n, den |-> d]
NaN == [kind |-> "nan", num |-> 0, den |-> 1]
PosInf == [kind |-> "pinf", num |-> 0, den |-> 1]
NegInf == [kind |-> "ninf", num |-> 0, den |-> 1]

\* numpy's x / s for a finite x >= 0 and a finite s >= 0 (both with den = 1
\* while the loop runs): 0/0 is nan, x/0 is inf, no exception is raised.
np_divide(x, s) ==
    IF s.num = 0
    THEN (IF x.num = 0 THEN NaN ELSE IF x.num > 0 THEN PosInf ELSE NegInf)
    ELSE Finite(x.num * s.den, x.den * s.num)

RECURSIVE SumUpTo(_, _)
\* P[0] + ... + P[k-1] of an array of finite values with den = 1
SumUpTo(arr, k) == IF k = 0 THEN 0 ELSE SumUpTo(arr, k - 1) + arr[k - 1].num

np_sum(arr) == Finite(SumUpTo(arr, Cardinality(DOMAIN arr)), 1)

np_zeros(n) == [c \in 0..(n - 1) |-> Finite(0, 1)]

\* ------------------------------------------- to_probability_distribution
\* the two assertions of the loop body
LabelOK_NoLowerBound(c, n) == c < n
LabelOK(c, n) == c < n /\ c >= 0

\* numpy index of P[c]: a negative index counts from the end
Index(c, n) == IF c < 0 THEN c + n ELSE c

\* P[c] += (y - x)**2, for the triple x, y, c = birth, death, c
Accumulate_Overwrite(arr, birth, death, c) ==
    [arr EXCEPT ![Index(c, Cardinality(DOMAIN arr))] = Finite((death - birth) * (death - birth), 1)]
Accumulate_NoSquare(arr, birth, death, c) ==
    [arr EXCEPT ![Index(c, Cardinality(DOMAIN arr))] = Finite(@.num + (death - birth), 1)]
Accumulate(arr, birth, death, c) ==
    [arr EXCEPT ![Index(c, Cardinality(DOMAIN arr))] = Finite(@.num + (death - birth) * (death - birth), 1)]

\* P = P / np.sum(P)
Normalize(arr) == [c \in DOMAIN arr |-> np_divide(arr[c], np_sum(arr))]

Triples(n) == (0..MaxVal) \X (0..MaxVal) \X ((-1)..n)

RECURSIVE SeqsUpTo(_, _)
SeqsUpTo(S, n) ==
    IF n = 0 THEN {<<>>}
    ELSE LET shorter == SeqsUpTo(S, n - 1)
         IN  shorter \cup {Append(s, e) : s \in {t \in shorter : Len(t) = n - 1}, e \in S}

MainIdle ==
    /\ FILES = <<>>
    /\ graphs = <<>>
    /\ labels = <<>>
    /\ gi = 0
    /\ y = <<>>
    /\ transformArg = <<>>
    /\ produced = {}
    /\ mainpc = "idle"

PDInit ==
    /\ DivIdle
    /\ MainIdle
    /\ WLIdle
    /\ PersIdle
    /\ C \in 1..MaxC
    /\ persistence_diagram \in SeqsUpTo(Triples(C), MaxLen)
    /\ P = np_zeros(C)
    /\ pos = 1
    /\ pdpc = "loop"

\* one iteration of `for x, y, c in persistence_diagram`
LoopStep ==
    /\ pdpc = "loop"
    /\ pos <= Len(persistence_diagram)
    /\ LET birth == persistence_diagram[pos][1]
           death == persistence_diagram[pos][2]
           c == persistence_diagram[pos][3]
       IN  IF LabelOK(c, C)
           THEN /\ P' = Accumulate(P, birth, death, c)
                /\ pos' = pos + 1
                /\ pdpc' = pdpc
           ELSE /\ pdpc' = "AssertionError"
                /\ UNCHANGED <<P, pos>>
    /\ UNCHANGED <<persistence_diagram, C, divVars, mainVars, wlVars, persVars>>

\* the loop is over: normalise and return
Return ==
    /\ pdpc = "loop"
    /\ pos > Len(persistence_diagram)
    /\ P' = Normalize(P)
    /\ pdpc' = "returned"
    /\ UNCHANGED <<persistence_diagram, C, pos, divVars, mainVars, wlVars, persVars>>

PDNext == LoopStep \/ Return

SpecPD == PDInit /\ [][PDNext]_vars

\* ------------------------------------------------ claims on SpecPD
RECURSIVE ClassWeight(_, _)
\* the sum of (death - birth)^2 over the triples of d labelled c
ClassWeight(d, c) ==
    IF d = <<>> THEN 0
    ELSE ClassWeight(Tail(d), c)
         + (IF Head(d)[3] = c THEN (Head(d)[2] - Head(d)[1]) * (Head(d)[2] - Head(d)[1]) ELSE 0)

RECURSIVE TotalWeight(_)
TotalWeight(d) ==
    IF d = <<>> THEN 0
    ELSE TotalWeight(Tail(d)) + (Head(d)[2] - Head(d)[1]) * (Head(d)[2] - Head(d)[1])

LabelsInRange == \A k \in 1..Len(persistence_diagram) : persistence_diagram[k][3] \in 0..(C - 1)

BadPositions == {k \in 1..Len(persistence_diagram) : persistence_diagram[k][3] \notin 0..(C - 1)}

FirstBad == CHOOSE k \in BadPositions : \A j \in BadPositions : k <= j

RECURSIVE RatSumUpTo(_, _)
\* arr[0] + ... + arr[k-1] of finite fractions, as <<numerator, denominator>>
RatSumUpTo(arr, k) ==
    IF k = 0 THEN <<0, 1>>
    ELSE LET r == RatSumUpTo(arr, k - 1)
         IN  <<r[1] * arr[k - 1].den + arr[k - 1].num * r[2], r[2] * arr[k - 1].den>>

AllFinite(arr) == \A c \in DOMAIN arr : arr[c].kind = "fin"

HasNaN(arr) == \E c \in DOMAIN arr : arr[c].kind = "nan"

\* C1: for a diagram whose labels all lie in [0, C) and whose total weight is
\* not zero, the returned vector has length C, every entry is >= 0, the
\* entries sum to 1, and entry c is the weight of class c over the total.
C1_ProbabilityDistribution ==
    (pdpc = "returned" /\ LabelsInRange /\ TotalWeight(persistence_diagram) # 0) =>
        /\ DOMAIN P = 0..(C - 1)
        /\ AllFinite(P)
        /\ \A c \in DOMAIN P : P[c].num * P[c].den >= 0
        /\ LET s == RatSumUpTo(P, C) IN s[1] = s[2] /\ s[2] # 0
        /\ \A c \in DOMAIN P :
               P[c].num * TotalWeight(persistence_diagram)
                   = ClassWeight(persistence_diagram, c) * P[c].den

\* C1 witness: a returned distribution over two classes of non-zero weight,
\* one of them from a triple whose death is below its birth.
C1_Witness ==
    /\ pdpc = "returned"
    /\ Len(persistence_diagram) >= 2
    /\ C >= 2
    /\ ClassWeight(persistence_diagram, 0) > 0
    /\ ClassWeight(persistence_diagram, 1) > 0
    /\ \E k \in 1..Len(persistence_diagram) :
           persistence_diagram[k][2] < persistence_diagram[k][1]

Degenerate == TotalWeight(persistence_diagram) = 0

\* C2: on a degenerate diagram (empty, or every triple with death = birth)
\* the call ends in a DegenerateDiagram error and never returns a vector with
\* NaN entries.
C2_DegenerateRaises ==
    (pdpc # "loop" /\ LabelsInRange /\ Degenerate) =>
        (pdpc = "DegenerateDiagram" /\ ~HasNaN(P))

\* C7 (as amended): a diagram with a label outside [0, C) never returns a
\* distribution; the call stops with an AssertionError at the first offending
\* triple, when exactly the triples before it have been accumulated into P.
C7_FailsAtFirstBadLabel ==
    /\ (pdpc = "returned" => LabelsInRange)
    /\ (~LabelsInRange => pos <= FirstBad)
    /\ (pdpc = "AssertionError" =>
            /\ ~LabelsInRange
            /\ pos = FirstBad
            /\ \A c \in DOMAIN P :
                   P[c] = Finite(ClassWeight(SubSeq(persistence_diagram, 1, pos - 1), c), 1))

\* C7 witness: the call failed on a triple that follows a triple of non-zero
\* weight.
C7_Witness ==
    /\ pdpc = "AssertionError"
    /\ pos > 1
    /\ \E c \in DOMAIN P : P[c].num > 0

\* C7 (as stated): the call fails before any triple's weight is accumulated,
\* wherever the offending triple is.
C7_NoWeightAccumulated ==
    pdpc = "AssertionError" => (pos = 1 /\ \A c \in DOMAIN P : P[c] = Finite(0, 1))

\* ------------------------------------------------------------ logarithms
\* The logarithm of a positive rational is kept exact, as the vector of the
\* exponents of its prime factorisation: log(n/d) = SUM_pr v[pr] * log(pr).
\* A finite result of the divergences is [kind |-> "fin", num |-> v, den |-> d]
\* and stands for (SUM_pr v[pr] * log(pr)) / d.
Primes == {n \in 2..Denominator : \A m \in 2..(n - 1) : n % m # 0}

RECURSIVE Mult(_, _)
\* the multiplicity of the prime pr in k >= 1
Mult(k, pr) == IF k % pr = 0 THEN 1 + Mult(k \div pr, pr) ELSE 0

ZeroVec == [pr \in Primes |-> 0]

\* np.log: log(0) = -inf, log(inf) = inf, log(nan) = nan
np_log(r) ==
    IF r.kind # "fin" THEN r
    ELSE IF r.num = 0 THEN NegInf
    ELSE Finite([pr \in Primes |-> Mult(r.num, pr) - Mult(r.den, pr)], 1)

\* x * l for a probability x >= 0 and a logarithm l: 0 * inf = nan
np_multiply(x, l) ==
    IF l.kind = "nan" THEN NaN
    ELSE IF l.kind # "fin" THEN (IF x.num = 0 THEN NaN ELSE l)
    ELSE Finite([pr \in Primes |-> x.num * l.num[pr]], x.den * l.den)

\* a + b of two results: nan is absorbing, inf - inf = nan
np_add(a, b) ==
    IF a.kind = "nan" \/ b.kind = "nan" THEN NaN
    ELSE IF a.kind # "fin" /\ b.kind # "fin" THEN (IF a.kind = b.kind THEN a ELSE NaN)
    ELSE IF a.kind # "fin" THEN a
    ELSE IF b.kind # "fin" THEN b
    ELSE IF a.den % b.den = 0
         THEN Finite([pr \in Primes |-> a.num[pr] + b.num[pr] * (a.den \div b.den)], a.den)
    ELSE IF b.den % a.den = 0
         THEN Finite([pr \in Primes |-> a.num[pr] * (b.den \div a.den) + b.num[pr]], b.den)
    ELSE Finite([pr \in Primes |-> a.num[pr] * b.den + b.num[pr] * a.den], a.den * b.den)

\* 0.5 * a
Half(a) == IF a.kind # "fin" THEN a ELSE Finite(a.num, 2 * a.den)

np_where(cond, a, b) == IF cond THEN a ELSE b

RECURSIVE np_sum_log(_, _)
\* np.sum of the first k entries of an array of logarithm terms
np_sum_log(arr, k) ==
    IF k = 0 THEN Finite(ZeroVec, 1) ELSE np_add(np_sum_log(arr, k - 1), arr[k])

\* ------------------------------------- kullback_leibler, jensen_shannon
kullback_leibler_NoWhere(a, b) ==
    np_sum_log([i \in DOMAIN a |-> np_multiply(a[i], np_log(np_divide(b[i], a[i])))], Len(a))
kullback_leibler(a, b) ==
    np_sum_log([i \in DOMAIN a |->
                   np_where(a[i].num # 0,
                            np_multiply(a[i], np_log(np_divide(b[i], a[i]))),
                            Finite(ZeroVec, 1))],
               Len(a))

jensen_shannon_OneSided(a, b) == Half(np_add(kullback_leibler(a, b), kullback_leibler(a, b)))
jensen_shannon(a, b) == Half(np_add(kullback_leibler(a, b), kullback_leibler(b, a)))

RECURSIVE Compositions(_, _)
\* the sequences of n naturals that sum to total
Compositions(n, total) ==
    IF n = 0 THEN (IF total = 0 THEN {<<>>} ELSE {})
    ELSE UNION {{Append(s, k) : s \in Compositions(n - 1, total - k)} : k \in 0..total}

\* the probability distributions of length DistLen with entries k/Denominator
Distributions ==
    {[i \in 1..DistLen |-> Finite(s[i], Denominator)] : s \in Compositions(DistLen, Denominator)}

DivInit ==
    /\ PDIdle
    /\ MainIdle
    /\ WLIdle
    /\ PersIdle
    /\ p \in Distributions
    /\ q \in Distributions
    /\ divCall = "none"
    /\ divRet = NaN

CallKullbackLeibler ==
    /\ divCall = "none"
    /\ divCall' = "kullback_leibler"
    /\ divRet' = kullback_leibler(p, q)
    /\ UNCHANGED <<p, q, pdVars, mainVars, wlVars, persVars>>

CallJensenShannon ==
    /\ divCall = "none"
    /\ divCall' = "jensen_shannon"
    /\ divRet' = jensen_shannon(p, q)
    /\ UNCHANGED <<p, q, pdVars, mainVars, wlVars, persVars>>

DivNext == CallKullbackLeibler \/ CallJensenShannon

SpecDiv == DivInit /\ [][DivNext]_vars

\* ------------------------------------------------ claims on SpecDiv
\* Python's == on two floats: nan equals nothing, not even itself
FloatEq(a, b) ==
    /\ a.kind # "nan"
    /\ b.kind # "nan"
    /\ a.kind = b.kind
    /\ a.kind = "fin" => \A pr \in Primes : a.num[pr] * b.den = b.num[pr] * a.den

Support(d) == {i \in DOMAIN d : d[i].num # 0}

\* C3: jensen_shannon(p, q) equals jensen_shannon(q, p).
C3_JensenShannonSymmetric ==
    divCall = "jensen_shannon" => FloatEq(divRet, jensen_shannon(q, p))

\* C3 witness: jensen_shannon returned a finite value for two distributions
\* whose one-sided divergences differ.
C3_Witness ==
    /\ divCall = "jensen_shannon"
    /\ divRet.kind = "fin"
    /\ ~FloatEq(kullback_leibler(p, q), kullback_leibler(q, p))

RECURSIVE SupportSum(_, _, _)
\* SUM over i in idx of a[i] * log(b[i] / a[i]), times Denominator, for
\* indices where a[i] and b[i] are both non-zero
SupportSum(a, b, idx) ==
    IF idx = {} THEN ZeroVec
    ELSE LET i == CHOOSE j \in idx : TRUE
             rest == SupportSum(a, b, idx \ {i})
         IN  [pr \in Primes |->
                 rest[pr] + a[i].num * (Mult(b[i].num, pr) - Mult(a[i].num, pr))]

\* C9: kullback_leibler(p, q) is the sum of p[i]*log(q[i]/p[i]) over the
\* indices with p[i] # 0; it is non-finite exactly when some index has
\* p[i] # 0 and q[i] = 0; jensen_shannon(p, q) is finite exactly when p and q
\* have the same non-zero indices.
C9_KullbackLeiblerSupport ==
    /\ divCall = "kullback_leibler" =>
          /\ (divRet.kind # "fin") <=> (\E i \in Support(p) : q[i].num = 0)
          /\ divRet.kind = "fin" =>
                 FloatEq(divRet, Finite(SupportSum(p, q, Support(p)), Denominator))
    /\ divCall = "jensen_shannon" =>
          ((divRet.kind = "fin") <=> (Support(p) = Support(q)))

\* C9 witness: kullback_leibler returned a finite value although p and q are
\* both zero at some index and q is non-zero at an index where p is zero.
C9_Witness ==
    /\ divCall = "kullback_leibler"
    /\ divRet.kind = "fin"
    /\ \E i \in DOMAIN p : p[i].num = 0 /\ q[i].num = 0
    /\ \E i \in DOMAIN p : p[i].num = 0 /\ q[i].num # 0
    /\ divRet.num # ZeroVec

\* ------------------------------------------------------------------ main
\* A graph is [n |-> its number of vertices, vs |-> its vertex attributes, a
\* function from attribute names to lists of n values].
VertexLabels == {0, 1}
ClassLabels == {1, 2}

InputGraphs ==
    UNION {{[n |-> n, vs |-> <<>>]} \cup
           {[n |-> n, vs |-> ("label" :> l)] : l \in [1..n -> VertexLabels]} :
           n \in 0..MaxGraphVertices}

\* the body of `for graph in graphs` (lines 99-101)
SetDefaultLabel_Always(g) == [g EXCEPT !.vs = ("label" :> [v \in 1..g.n |-> 0]) @@ g.vs]
SetDefaultLabel(g) ==
    IF "label" \notin DOMAIN g.vs
    THEN [g EXCEPT !.vs = ("label" :> [v \in 1..g.n |-> 0]) @@ g.vs]
    ELSE g

\* the condition of `assert len(graphs) == len(labels)`
CountsMatch_AtMost(gs, ls) == Len(gs) <= Len(ls)
CountsMatch(gs, ls) == Len(gs) = Len(ls)

\* LabelEncoder().fit_transform: the rank of each label among the labels seen
fit_transform(ls) ==
    [i \in 1..Len(ls) |-> Cardinality({ls[j] : j \in {k \in 1..Len(ls) : ls[k] < ls[i]}})]

\* the state after lines 93-94: FILES has at least one name (nargs='+')
MainInit ==
    /\ PDIdle
    /\ DivIdle
    /\ WLIdle
    /\ PersIdle
    /\ FILES \in SeqsUpTo(InputGraphs, MaxGraphs) \ {<<>>}
    /\ graphs = FILES
    /\ labels \in SeqsUpTo(ClassLabels, MaxGraphs + 1)
    /\ gi = 1
    /\ y = <<>>
    /\ transformArg = <<>>
    /\ produced = {}
    /\ mainpc = "set_labels"

\* lines 99-101, one graph
SetLabelsStep ==
    /\ mainpc = "set_labels"
    /\ gi <= Len(graphs)
    /\ graphs' = [graphs EXCEPT ![gi] = SetDefaultLabel(graphs[gi])]
    /\ gi' = gi + 1
    /\ UNCHANGED <<FILES, labels, y, transformArg, produced, mainpc, pdVars, divVars, wlVars, persVars>>

\* lines 103-105
AssertCounts ==
    /\ mainpc = "set_labels"
    /\ gi > Len(graphs)
    /\ mainpc' = IF CountsMatch(graphs, labels) THEN "encode" ELSE "AssertionError"
    /\ UNCHANGED <<FILES, graphs, labels, gi, y, transformArg, produced, pdVars, divVars, wlVars, persVars>>

\* lines 107-117
Encode ==
    /\ mainpc = "encode"
    /\ y' = fit_transform(labels)
    /\ mainpc' = "transform"
    /\ UNCHANGED <<FILES, graphs, labels, gi, transformArg, produced, pdVars, divVars, wlVars, persVars>>

\* lines 118-120: pwl.transform(graphs, args.num_iterations)
Transform ==
    /\ mainpc = "transform"
    /\ transformArg' = <<graphs>>
    /\ produced' = {"X", "persistence_diagrams"}
    /\ mainpc' = "plot"
    /\ UNCHANGED <<FILES, graphs, labels, gi, y, pdVars, divVars, wlVars, persVars>>

\* lines 124-153
Plot ==
    /\ mainpc = "plot"
    /\ mainpc' = "raise"
    /\ UNCHANGED <<FILES, graphs, labels, gi, y, transformArg, produced, pdVars, divVars, wlVars, persVars>>

\* line 155: raise 'heck' raises a TypeError, a str is no exception
RaiseHeck ==
    /\ mainpc = "raise"
    /\ mainpc' = "TypeError"
    /\ UNCHANGED <<FILES, graphs, labels, gi, y, transformArg, produced, pdVars, divVars, wlVars, persVars>>

MainNext == SetLabelsStep \/ AssertCounts \/ Encode \/ Transform \/ Plot \/ RaiseHeck

SpecMain == MainInit /\ [][MainNext]_vars

\* ------------------------------------------------ claims on SpecMain
\* C5: when the number of graphs differs from the number of labels, main
\* aborts with an error before pwl.transform is called: no feature matrix and
\* no persistence diagram is ever produced.
C5_MismatchAborts ==
    Len(FILES) # Len(labels) =>
        /\ mainpc \in {"set_labels", "AssertionError"}
        /\ transformArg = <<>>
        /\ produced = {}

\* C5 witness: main has aborted on more labels than graphs.
C5_Witness ==
    /\ mainpc = "AssertionError"
    /\ Len(labels) > Len(FILES)
    /\ Len(FILES) = MaxGraphs

\* C8: when transform is called every vertex of every graph has a label: a
\* graph read without a 'label' attribute has label 0 on every vertex, a
\* graph read with one has its labels unchanged.
C8_LabelsBeforeTransform ==
    (mainpc \notin {"set_labels", "AssertionError"} \/ transformArg # <<>>) =>
        LET gs == IF transformArg # <<>> THEN transformArg[1] ELSE graphs
        IN  /\ Len(gs) = Len(FILES)
            /\ \A i \in 1..Len(gs) :
                   /\ gs[i].n = FILES[i].n
                   /\ "label" \in DOMAIN gs[i].vs
                   /\ DOMAIN gs[i].vs["label"] = 1..gs[i].n
                   /\ "label" \notin DOMAIN FILES[i].vs =>
                          \A v \in 1..gs[i].n : gs[i].vs["label"][v] = 0
                   /\ "label" \in DOMAIN FILES[i].vs =>
                          gs[i].vs["label"] = FILES[i].vs["label"]

\* C8 witness: transform was called with a graph read without labels and a
\* graph read with non-zero labels.
C8_Witness ==
    /\ transformArg # <<>>
    /\ \E i \in 1..Len(FILES) : "label" \notin DOMAIN FILES[i].vs /\ FILES[i].n = MaxGraphVertices
    /\ \E i \in 1..Len(FILES) :
           /\ "label" \in DOMAIN FILES[i].vs
           /\ \E v \in 1..FILES[i].n : FILES[i].vs["label"][v] # 0

\* ------------------------------------------------------- WeisfeilerLehman
\* WeisfeilerLehman and LabelCompressor live in the features module that
\* show_metric.py and persistence_diagrams.py import; they follow sections
\* 4.1 and 4.2 of the specification, with a fresh compression mapping for
\* every iteration.
Vertices(n) == 1..n

Min2(e) == CHOOSE u \in e : \A v \in e : u <= v
Max2(e) == CHOOSE u \in e : \A v \in e : u >= v

Neighbours(E, v) == {u \in UNION E : {u, v} \in E /\ u # v}

RECURSIVE SortedLabels(_, _)
\* the labels lab[v] of the vertices v of V, in ascending order with repeats
SortedLabels(lab, V) ==
    IF V = {} THEN <<>>
    ELSE LET m == CHOOSE u \in V : \A w \in V : lab[u] <= lab[w]
         IN  <<lab[m]>> \o SortedLabels(lab, V \ {m})

\* the variant that keeps the own label in front of the sorted labels of
\* the neighbours
RawLabel_OwnFirst(E, lab, v) == <<lab[v]>> \o SortedLabels(lab, Neighbours(E, v))
\* the raw label of v: the sorted multiset {label(v)} u {label(u) : u adjacent to v}
RawLabel(E, lab, v) == SortedLabels(lab, {v} \cup Neighbours(E, v))

\* LabelCompressor.compress: equal raw labels get equal integers, integers
\* are given in the order of first occurrence
compress(raw) ==
    [v \in DOMAIN raw |->
        LET first == CHOOSE u \in DOMAIN raw :
                        raw[u] = raw[v] /\ \A w \in DOMAIN raw : raw[w] = raw[v] => u <= w
        IN  Cardinality({raw[u] : u \in {w \in DOMAIN raw : w < first}})]

UndirectedEdges(n) == {e \in SUBSET Vertices(n) : Cardinality(e) = 2}

WLInit ==
    /\ PDIdle
    /\ DivIdle
    /\ MainIdle
    /\ PersIdle
    /\ wlN \in 1..MaxWLVertices
    /\ wlEdges \in SUBSET UndirectedEdges(wlN)
    /\ wlLabels \in [Vertices(wlN) -> 0..MaxLabel]
    /\ wlRaw = <<>>
    /\ wlPrev = <<>>
    /\ wlIter = 0

\* the transition from iteration k to iteration k + 1
Refine ==
    /\ wlIter < MaxIter
    /\ wlN > 0
    /\ LET raw == [v \in Vertices(wlN) |-> RawLabel(wlEdges, wlLabels, v)]
       IN  /\ wlRaw' = raw
           /\ wlLabels' = compress(raw)
    /\ wlPrev' = wlLabels
    /\ wlIter' = wlIter + 1
    /\ UNCHANGED <<wlN, wlEdges, pdVars, divVars, mainVars, persVars>>

WLNext == Refine

SpecWL == WLInit /\ [][WLNext]_vars

\* ------------------------------------------------ claims on SpecWL
Range(f) == {f[x] : x \in DOMAIN f}

Infinity == MaxWeight + 1

WeightedGraphs(n) ==
    {{[u |-> Min2(e), v |-> Max2(e), w |-> wt[e]] : e \in E} :
        <<E, wt>> \in UNION {{<<E, wt>> : wt \in [E -> 1..MaxWeight]} : E \in SUBSET UndirectedEdges(n)}}

Find_NoChase(par, v) == par[v]
RECURSIVE Find(_, _)
\* the root of v's component
Find(par, v) == IF par[v] = v THEN v ELSE Find(par, par[v])

\* the root that dies when the components of roots a # b merge
Younger(a, b) == IF a > b THEN a ELSE b
Elder(a, b) == IF a > b THEN b ELSE a

LabelOf(v) == v - 1

\* step 3: whether the edge joins two different components
IsMerge_ByParent(par, e) == par[e.u] # par[e.v]
IsMerge(par, e) == Find(par, e.u) # Find(par, e.v)

\* step 1: the unprocessed edges of least weight; ties are broken by an
\* order that is fixed but not known
NextEdges(E, done) == {e \in E \ done : \A f \in E \ done : e.w <= f.w}

PersInit ==
    /\ PDIdle
    /\ DivIdle
    /\ MainIdle
    /\ WLIdle
    /\ pN \in 1..MaxPersVertices
    /\ pEdges \in WeightedGraphs(pN)
    /\ use_cycle_persistence \in BOOLEAN
    /\ pDone = {}
    /\ parent = [v \in Vertices(pN) |-> v]
    /\ dgm0 = <<>>
    /\ dgm1 = <<>>
    /\ perspc = "filtration"

\* step 3 and step 5: process the next edge of the filtration
ProcessEdge ==
    /\ perspc = "filtration"
    /\ \E e \in NextEdges(pEdges, pDone) :
          /\ pDone' = pDone \cup {e}
          /\ IF IsMerge(parent, e)
             THEN LET a == Find(parent, e.u)
                      b == Find(parent, e.v)
                  IN  /\ dgm0' = Append(dgm0, <<0, e.w, LabelOf(Younger(a, b))>>)
                      /\ parent' = [parent EXCEPT ![Younger(a, b)] = Elder(a, b)]
                      /\ dgm1' = dgm1
             ELSE /\ dgm1' = IF use_cycle_persistence
                             THEN Append(dgm1, <<e.w, e.w, LabelOf(Find(parent, e.u))>>)
                             ELSE dgm1
                  /\ UNCHANGED <<dgm0, parent>>
    /\ UNCHANGED <<pN, pEdges, use_cycle_persistence, perspc, pdVars, divVars, mainVars, wlVars>>

RECURSIVE EssentialPairs(_, _)
\* one pair of infinite death for every root among the vertices 1..k
EssentialPairs(par, k) ==
    IF k = 0 THEN <<>>
    ELSE EssentialPairs(par, k - 1)
         \o (IF par[k] = k THEN <<<<0, Infinity, LabelOf(k)>>>> ELSE <<>>)

\* step 4: the filtration is over
Finish ==
    /\ perspc = "filtration"
    /\ pDone = pEdges
    /\ dgm0' = dgm0 \o EssentialPairs(parent, pN)
    /\ perspc' = "done"
    /\ UNCHANGED <<pN, pEdges, use_cycle_persistence, pDone, parent, dgm1, pdVars, divVars, mainVars, wlVars>>

PersNext == ProcessEdge \/ Finish

SpecPers == PersInit /\ [][PersNext]_vars

\* ------------------------------------------------ claims on SpecPers
RECURSIVE Reachable(_, _)
\* the vertices joined to a vertex of S by a path of edges of E
Reachable(E, S) ==
    LET T == S \cup {e.v : e \in {f \in E : f.u \in S}} \cup {e.u : e \in {f \in E : f.v \in S}}
    IN  IF T = S THEN S ELSE Reachable(E, T)

\* the number of connected components of the graph
NumComponents == Cardinality({Reachable(pEdges, {v}) : v \in Vertices(pN)})

FinitePairs(d) == {k \in 1..Len(d) : d[k][2] # Infinity}

EssentialPairsOf(d) == {k \in 1..Len(d) : d[k][2] = Infinity}

\* C4: the 0-dimensional diagram of a graph with n vertices and c connected
\* components has exactly n - c pairs of finite death and exactly c essential
\* pairs, whatever the weights and the order of ties.
C4_PairCount ==
    perspc = "done" =>
        /\ Cardinality(FinitePairs(dgm0)) = pN - NumComponents
        /\ Cardinality(EssentialPairsOf(dgm0)) = NumComponents
        /\ (NumComponents = 1 => Cardinality(FinitePairs(dgm0)) = pN - 1)
        /\ (pEdges = {} => Cardinality(FinitePairs(dgm0)) = 0)

\* C4 witness: the diagram of a graph of three vertices and two components,
\* with its one finite pair and its two essential pairs.
C4_Witness ==
    /\ perspc = "done"
    /\ pN = 3
    /\ NumComponents = 2
    /\ Cardinality(FinitePairs(dgm0)) = 1
    /\ Len(dgm0) = 3

\* the number of pairs of diagram d born at w
BornAt(d, w) == Cardinality({k \in 1..Len(d) : d[k][1] = w})

\* C10: with cycle persistence every edge is a merge or closes a cycle, never
\* both and never neither; each cycle-closing edge of weight w gives one
\* 1-dimensional pair born at w, m - (n - c) pairs in all; a triangle of
\* weights 1 gives the one pair (1, 1); a graph without edges gives an empty
\* 1-dimensional diagram and no error.
C10_CyclePairs ==
    use_cycle_persistence =>
        /\ Len(dgm0) + Len(dgm1) = Cardinality(pDone) + (IF perspc = "done" THEN NumComponents ELSE 0)
        /\ \A w \in 1..MaxWeight :
               BornAt(dgm1, w) + Cardinality({k \in FinitePairs(dgm0) : dgm0[k][2] = w})
                   = Cardinality({e \in pDone : e.w = w})
        /\ \A k \in 1..Len(dgm1) : dgm1[k][1] = dgm1[k][2]
        /\ perspc = "done" =>
               /\ Len(dgm1) = Cardinality(pEdges) - (pN - NumComponents)
               /\ (pN = 3 /\ Cardinality(pEdges) = 3 /\ \A e \in pEdges : e.w = 1) =>
                      (Len(dgm1) = 1 /\ dgm1[1][1] = 1 /\ dgm1[1][2] = 1)
               /\ pEdges = {} => dgm1 = <<>>
        /\ (pEdges = {} /\ perspc # "done") => ENABLED Finish

\* C10 witness: the triangle of weights 1, done, with its one cycle pair.
C10_Witness ==
    /\ use_cycle_persistence
    /\ perspc = "done"
    /\ pN = 3
    /\ Cardinality(pEdges) = 3
    /\ \A e \in pEdges : e.w = 1
    /\ Len(dgm1) = 1

====
